---- MODULE Spec2Model ----
(***************************************************************************)
(* A model of collage_creator.py: load_images, the page partition of main, *)
(* create_collage (grid, fitting, placement, caption date, info box,       *)
(* output naming) and find_empty_spot.                                     *)
(*                                                                         *)
(* Images are opaque: an image is known by its file (its position in the   *)
(* directory listing) and by the size PIL reports for it, which is read    *)
(* when create_collage reaches the image.  Time stamps are counted in      *)
(* ticks, TicksPerDay of them in one calendar day.                         *)
(***************************************************************************)
EXTENDS Integers, Sequences, FiniteSets, TLC

VARIABLES
    entry,            \* the function the run was started through
    pc,               \* position of the run
    dir,              \* os.listdir('images'): one record per file
    li,               \* load_images: files of the listing already visited
    images,           \* load_images: the list it builds and returns
    p,                \* params
    collage_groups,   \* main: the pages' image lists
    idx,              \* main: enumerate index of the page loop
    imgs,             \* create_collage: argument imgs
    collage_id,       \* create_collage: argument collage_id
    grid,             \* create_collage: num_cols, num_rows, img_width, img_height
    i,                \* create_collage: enumerate index of the image loop
    img,              \* create_collage: the image of the current pass of the loop
    placed,           \* create_collage: what was pasted and stamped, per index
    overlay,          \* create_collage: the info box and where it was pasted
    collage_filename, \* create_collage: candidate output name
    name_i,           \* create_collage: suffix counter of the naming loop
    fs,               \* output names that exist in the working directory
    saved,            \* the pages written by collage.save, in order
    err,              \* the exception that ended the run, or "none"
    scan              \* find_empty_spot: its arguments and its result

vars == <<entry, pc, dir, li, images, p, collage_groups, idx, imgs, collage_id,
          grid, i, img, placed, overlay, collage_filename, name_i, fs, saved, err,
          scan>>

(***************************************************************************)
(* Bounds of the model.                                                    *)
(***************************************************************************)
MaxFiles == 3        \* files in the directory listing (main)
MaxPerPage == 2      \* pics_per_page (main)
MaxImgs == 5         \* images handed to create_collage directly
MaxPage == 4         \* page width and height (create_collage directly)
MaxPad == 1          \* padding
MaxBorder == 1       \* border_thickness
MaxImgDim == 2       \* width and height of a source image
MaxInfo == 1         \* width and height of the info box's text
MaxSuffix == 3       \* suffixes -1..-MaxSuffix that may exist beforehand
MaxPanel == 4        \* panel width and height handed to find_empty_spot
MaxScanPage == 4     \* page width and height handed to find_empty_spot

Aligns == {"left", "center", "right"}

(***************************************************************************)
(* Python arithmetic.                                                      *)
(***************************************************************************)
\* a // b for b > 0 (floor division)
FloorDiv(a, b) == IF a >= 0 THEN a \div b ELSE -(((-a) + b - 1) \div b)

\* int(a / b) for b > 0 (truncation toward zero)
TruncDiv(a, b) == IF a >= 0 THEN a \div b ELSE -((-a) \div b)

\* int(n ** 0.5)
IntSqrt(n) == CHOOSE c \in 0..n : c * c <= n /\ (c + 1) * (c + 1) > n

Min(a, b) == IF a <= b THEN a ELSE b

(***************************************************************************)
(* extract_creation_date and the caption's date format.                    *)
(***************************************************************************)
\* the value of a file without an embedded DateTimeOriginal
NoExif == -1

\* ticks of one calendar day: the date format '%m-%d' drops the time of day
TicksPerDay == 2

\* datetime.strftime(p['date_format'])
strftime(t) == t \div TicksPerDay

\* the time stamps of the model: midnight of two consecutive days
Times == {0, TicksPerDay}

\* the embedded capture time, or the modification time as fallback
extract_creation_date(f) == IF f.exif # NoExif THEN f.exif ELSE f.mtime

\* os.path.getmtime(os.path.join('images', name)), a file named by its
\* position in the listing
getmtime(name) == dir[name].mtime

(***************************************************************************)
(* main: the partition of the loaded images into pages.                    *)
(***************************************************************************)
\* range(0, total, step) for step >= 1
RangeStarts(total, step) == {s \in 0..(total - 1) : s % step = 0}

\* a partition that makes one empty page of an empty list
GroupsKeepsEmptyPage(all, per_page) ==
    IF all = <<>> THEN << <<>> >>
    ELSE [k \in 1..Cardinality(RangeStarts(Len(all), per_page)) |->
            SubSeq(all, (k - 1) * per_page + 1, Min(k * per_page, Len(all)))]

\* a partition that drops a last, shorter page
GroupsMutant(all, per_page) ==
    [k \in 1..(Len(all) \div per_page) |->
        SubSeq(all, (k - 1) * per_page + 1, k * per_page)]

\* [images[i:i + per_page] for i in range(0, len(images), per_page)]
Groups(all, per_page) ==
    [k \in 1..Cardinality(RangeStarts(Len(all), per_page)) |->
        SubSeq(all, (k - 1) * per_page + 1, Min(k * per_page, Len(all)))]

(***************************************************************************)
(* create_collage: grid, fitting and placement.                            *)
(***************************************************************************)
\* num_cols = int(num_imgs ** 0.5)
NumCols(num_imgs) == IntSqrt(num_imgs)

\* a row count rounded down instead of up
NumRowsMutant(num_imgs, num_cols) == FloorDiv(num_imgs, num_cols)

\* num_rows = -(-num_imgs // num_cols)
NumRows(num_imgs, num_cols) == -FloorDiv(-num_imgs, num_cols)

\* (extent - padding * (count + 1)) // count
CellSize(extent, padding, count) == FloorDiv(extent - padding * (count + 1), count)

Grid(num_imgs, width, height, padding) ==
    LET num_cols == NumCols(num_imgs)
        num_rows == NumRows(num_imgs, num_cols)
    IN  [num_cols |-> num_cols, num_rows |-> num_rows,
         img_width |-> CellSize(width, padding, num_cols),
         img_height |-> CellSize(height, padding, num_rows)]

NoGrid == [num_cols |-> 0, num_rows |-> 0, img_width |-> 0, img_height |-> 0]

NoImg == [iw |-> 0, ih |-> 0, rotated |-> FALSE, w |-> 0, h |-> 0]

\* a rotation decided by comparing the two orientations as booleans
RotatesMutant(iw, ih, width, height) == (iw > ih) # (width > height)

\* the condition under which img.rotate(90, expand=True) is applied
Rotates(iw, ih, width, height) ==
    (iw > ih /\ width < height) \/ (iw < ih /\ width > height)

\* scale = min(img_width / w, img_height / h), kept as numerator and
\* denominator.  The source computes it in double precision; for the sizes
\* of this model (sources up to 10, cells up to 40 pixels) the truncated
\* products below equal the double-precision ones.
Scale(img_width, img_height, w, h) ==
    IF img_width * h <= img_height * w THEN <<img_width, w>> ELSE <<img_height, h>>

\* (int(w * scale), int(h * scale))
ScaledSize(w, h, scale) ==
    <<TruncDiv(w * scale[1], scale[2]), TruncDiv(h * scale[1], scale[2])>>

\* orientation correction and scaling of an image of size iw x ih:
\* whether it was rotated, and img.size after resize
Fit(iw, ih, g, width, height) ==
    LET rot == Rotates(iw, ih, width, height)
        w == IF rot THEN ih ELSE iw
        h == IF rot THEN iw ELSE ih
        sz == ScaledSize(w, h, Scale(g.img_width, g.img_height, w, h))
    IN  [rotated |-> rot, w |-> sz[1], h |-> sz[2]]

\* Image.resize raises ValueError unless both sides are at least 1
ResizeFails(f) == f.w < 1 \/ f.h < 1

XOffset(align, col_idx, img_width, padding, w) ==
    IF align = "left" THEN col_idx * (img_width + padding) + padding
    ELSE IF align = "right" THEN (col_idx + 1) * (img_width + padding) - w
    ELSE col_idx * (img_width + padding) + FloorDiv(img_width - w, 2) + padding

YOffset(row_idx, img_height, padding, h) ==
    row_idx * (img_height + padding) + FloorDiv(img_height - h, 2) + padding

\* the side of the image that is pasted, with the border when it is enabled
Bordered(side, border, border_thickness) ==
    IF border THEN side + border_thickness * 2 ELSE side

\* the file whose modification time is stamped on the image at index k
StampedFile(k) == k + 1

\* date_str of the image at index k (0-based) of the page
DateStr(k) == strftime(getmtime(StampedFile(k)))

(***************************************************************************)
(* find_empty_spot.                                                        *)
(***************************************************************************)
None == <<>>

\* a scan that tests the panel without its trailing padding
find_empty_spot_mutant(width, height, padding, img_width, img_height) ==
    LET num_cols == FloorDiv(width + padding, img_width + padding)
        num_rows == FloorDiv(height + padding, img_height + padding)
        x_offset(col_idx) == col_idx * (img_width + padding) + padding
        y_offset(row_idx) == row_idx * (img_height + padding) + padding
        fits == {c \in (0..(num_rows - 1)) \X (0..(num_cols - 1)) :
                    /\ x_offset(c[2]) + img_width <= width
                    /\ y_offset(c[1]) + img_height <= height}
        first == CHOOSE c \in fits : \A o \in fits :
                    c[1] < o[1] \/ (c[1] = o[1] /\ c[2] <= o[2])
    IN  IF fits = {} THEN None ELSE <<x_offset(first[2]), y_offset(first[1])>>

find_empty_spot(width, height, padding, img_width, img_height) ==
    LET num_cols == FloorDiv(width + padding, img_width + padding)
        num_rows == FloorDiv(height + padding, img_height + padding)
        x_offset(col_idx) == col_idx * (img_width + padding) + padding
        y_offset(row_idx) == row_idx * (img_height + padding) + padding
        fits == {c \in (0..(num_rows - 1)) \X (0..(num_cols - 1)) :
                    /\ x_offset(c[2]) + img_width + padding <= width
                    /\ y_offset(c[1]) + img_height + padding <= height}
        first == CHOOSE c \in fits : \A o \in fits :
                    c[1] < o[1] \/ (c[1] = o[1] /\ c[2] <= o[2])
    IN  IF fits = {} THEN None ELSE <<x_offset(first[2]), y_offset(first[1])>>

\* the margin the info box adds around its text: (info_w + 20, info_h + 20)
PanelMargin == 20

(***************************************************************************)
(* Output names: "<prefix>-<YYYYMMDD>-<collage_id>.png" and                *)
(* "<prefix>-<YYYYMMDD>-<collage_id>-<i>.png", kept as the fields that     *)
(* follow the date.                                                        *)
(***************************************************************************)
FirstName(id) == <<id>>
SuffixedName(id, k) == <<id, k>>

(***************************************************************************)
(* load_images.                                                            *)
(***************************************************************************)
\* Image.open, extract_creation_date and images.append for one file
LoadImage ==
    /\ pc = "load"
    /\ li < Len(dir)
    /\ dir[li + 1].ok
    /\ images' = Append(images, [filename |-> li + 1,
                                 created_date |-> extract_creation_date(dir[li + 1])])
    /\ li' = li + 1
    /\ UNCHANGED <<img, entry, pc, dir, p, collage_groups, idx, imgs, collage_id, grid, i,
                   placed, overlay, collage_filename, name_i, fs, saved, err, scan>>

\* a load in which the failure of one file is not caught
SkipFileMutant ==
    /\ pc = "load"
    /\ li < Len(dir)
    /\ ~dir[li + 1].ok
    /\ err' = "IOError"
    /\ pc' = "error"
    /\ UNCHANGED <<img, entry, dir, li, images, p, collage_groups, idx, imgs, collage_id,
                   grid, i, placed, overlay, collage_filename, name_i, fs, saved, scan>>

\* except IOError: the file is reported and left out
SkipFile ==
    /\ pc = "load"
    /\ li < Len(dir)
    /\ ~dir[li + 1].ok
    /\ li' = li + 1
    /\ UNCHANGED <<img, entry, pc, dir, images, p, collage_groups, idx, imgs, collage_id,
                   grid, i, placed, overlay, collage_filename, name_i, fs, saved, err,
                   scan>>

(***************************************************************************)
(* main.                                                                   *)
(***************************************************************************)
\* load_images returns; collage_groups is built
MakeGroups ==
    /\ pc = "load"
    /\ li = Len(dir)
    /\ collage_groups' = Groups(images, p.pics_per_page)
    /\ idx' = 0
    /\ pc' = "loop"
    /\ UNCHANGED <<img, entry, dir, li, images, p, imgs, collage_id, grid, i, placed,
                   overlay, collage_filename, name_i, fs, saved, err, scan>>

\* for idx, group in enumerate(collage_groups): create_collage(group, idx + 1, ...)
CallCreateCollage ==
    /\ pc = "loop"
    /\ idx < Len(collage_groups)
    /\ imgs' = collage_groups[idx + 1]
    /\ collage_id' = idx + 1
    /\ pc' = "plan"
    /\ UNCHANGED <<img, entry, dir, li, images, p, collage_groups, idx, grid, i, placed,
                   overlay, collage_filename, name_i, fs, saved, err, scan>>

\* the page loop is exhausted: "Collage generation complete."
Finish ==
    /\ pc = "loop"
    /\ idx = Len(collage_groups)
    /\ pc' = "done"
    /\ UNCHANGED <<img, entry, dir, li, images, p, collage_groups, idx, imgs, collage_id,
                   grid, i, placed, overlay, collage_filename, name_i, fs, saved, err,
                   scan>>

(***************************************************************************)
(* create_collage.                                                         *)
(***************************************************************************)
\* where the run goes once the last image of the page is placed
AfterImages == IF p.info_box THEN "info" ELSE "name"

\* num_imgs, num_cols, num_rows, img_width, img_height and the new canvas
Plan ==
    /\ pc = "plan"
    /\ NumCols(Len(imgs)) # 0
    /\ grid' = Grid(Len(imgs), p.width, p.height, p.padding)
    /\ i' = 0
    /\ placed' = <<>>
    /\ overlay' = None
    /\ pc' = "place"
    /\ UNCHANGED <<img, entry, dir, li, images, p, collage_groups, idx, imgs, collage_id,
                   collage_filename, name_i, fs, saved, err, scan>>

\* -(-num_imgs // 0): an empty imgs raises ZeroDivisionError
PlanError ==
    /\ pc = "plan"
    /\ NumCols(Len(imgs)) = 0
    /\ err' = "ZeroDivisionError"
    /\ pc' = "error"
    /\ UNCHANGED <<img, entry, dir, li, images, p, collage_groups, idx, imgs, collage_id,
                   grid, i, placed, overlay, collage_filename, name_i, fs, saved, scan>>

\* one pass of the image loop: rotate, resize, offsets, border, paste, caption
PlaceImage ==
    /\ pc = "place"
    /\ i < Len(imgs)
    /\ \E iw \in 1..MaxImgDim, ih \in 1..MaxImgDim :
        LET f == Fit(iw, ih, grid, p.width, p.height)
            row_idx == i \div grid.num_cols
            col_idx == i % grid.num_cols
        IN  /\ ~ResizeFails(f)
            /\ img' = [iw |-> iw, ih |-> ih, rotated |-> f.rotated, w |-> f.w, h |-> f.h]
            /\ placed' = Append(placed,
                  [filename |-> imgs[i + 1].filename,
                   row_idx |-> row_idx, col_idx |-> col_idx,
                   x |-> XOffset(p.align, col_idx, grid.img_width, p.padding, f.w),
                   y |-> YOffset(row_idx, grid.img_height, p.padding, f.h),
                   w |-> Bordered(f.w, p.border, p.border_thickness),
                   h |-> Bordered(f.h, p.border, p.border_thickness),
                   date_str |-> DateStr(i)])
    /\ i' = i + 1
    /\ pc' = IF i + 1 = Len(imgs) THEN AfterImages ELSE "place"
    /\ UNCHANGED <<entry, dir, li, images, p, collage_groups, idx, imgs, collage_id,
                   grid, overlay, collage_filename, name_i, fs, saved, err, scan>>

\* img.resize to a size with a side below 1 raises ValueError
ResizeError ==
    /\ pc = "place"
    /\ i < Len(imgs)
    /\ \E iw \in 1..MaxImgDim, ih \in 1..MaxImgDim :
        ResizeFails(Fit(iw, ih, grid, p.width, p.height))
    /\ err' = "ValueError"
    /\ pc' = "error"
    /\ UNCHANGED <<img, entry, dir, li, images, p, collage_groups, idx, imgs, collage_id,
                   grid, i, placed, overlay, collage_filename, name_i, fs, saved, scan>>

\* if p['info_box']: measure the text, find_empty_spot, paste or report
InfoBox ==
    /\ pc = "info"
    /\ \E info_w \in 0..MaxInfo, info_h \in 0..MaxInfo :
        overlay' = <<info_w + PanelMargin, info_h + PanelMargin,
                     find_empty_spot(p.width, p.height, p.padding,
                                     info_w + PanelMargin, info_h + PanelMargin)>>
    /\ pc' = "name"
    /\ UNCHANGED <<img, entry, dir, li, images, p, collage_groups, idx, imgs, collage_id,
                   grid, i, placed, collage_filename, name_i, fs, saved, err, scan>>

\* collage_filename = "<prefix>-<date>-<collage_id>.png"; i = 1
NameFirst ==
    /\ pc = "name"
    /\ collage_filename' = FirstName(collage_id)
    /\ name_i' = 1
    /\ pc' = "exists"
    /\ UNCHANGED <<img, entry, dir, li, images, p, collage_groups, idx, imgs, collage_id,
                   grid, i, placed, overlay, fs, saved, err, scan>>

\* a check made for the unsuffixed name only (an if in place of the while)
PathExistsMutant(name) == name = FirstName(collage_id) /\ name \in fs

\* os.path.exists(name)
PathExists(name) == name \in fs

\* while os.path.exists(collage_filename): next suffix
NameNext ==
    /\ pc = "exists"
    /\ PathExists(collage_filename)
    /\ collage_filename' = SuffixedName(collage_id, name_i)
    /\ name_i' = name_i + 1
    /\ UNCHANGED <<img, entry, pc, dir, li, images, p, collage_groups, idx, imgs, collage_id,
                   grid, i, placed, overlay, fs, saved, err, scan>>

\* collage.save(collage_filename), and the return to the caller, at which
\* the locals of create_collage are gone
Save ==
    /\ pc = "exists"
    /\ ~PathExists(collage_filename)
    /\ fs' = fs \cup {collage_filename}
    /\ saved' = Append(saved, [collage_id |-> collage_id, name |-> collage_filename,
                               overwrote |-> collage_filename \in fs,
                               dates |-> [k \in 1..Len(placed) |-> placed[k].date_str],
                               files |-> [k \in 1..Len(placed) |-> placed[k].filename]])
    /\ grid' = NoGrid /\ i' = 0 /\ img' = NoImg /\ placed' = <<>> /\ overlay' = None
    /\ collage_filename' = <<>> /\ name_i' = 0
    /\ idx' = IF entry = "main" THEN idx + 1 ELSE idx
    /\ pc' = IF entry = "main" THEN "loop" ELSE "done"
    /\ UNCHANGED <<entry, dir, li, images, p, collage_groups, imgs, collage_id, err, scan>>

(***************************************************************************)
(* find_empty_spot called on its own.                                      *)
(***************************************************************************)
ScanCall ==
    /\ pc = "scan"
    /\ scan' = [scan EXCEPT !.result = find_empty_spot(scan.width, scan.height,
                                scan.padding, scan.img_width, scan.img_height)]
    /\ pc' = "done"
    /\ UNCHANGED <<img, entry, dir, li, images, p, collage_groups, idx, imgs, collage_id,
                   grid, i, placed, overlay, collage_filename, name_i, fs, saved, err>>

(***************************************************************************)
(* Initial states: one family per function a run is started through.       *)
(***************************************************************************)
\* files that differ in whether they decode
FileKinds == {[ok |-> b, exif |-> NoExif, mtime |-> 0] : b \in BOOLEAN}

\* files that differ also in their modification and embedded capture times
DatedKinds ==
    {[ok |-> FALSE, exif |-> NoExif, mtime |-> t] : t \in Times}
    \cup {[ok |-> TRUE, exif |-> e, mtime |-> t] : e \in {NoExif} \cup Times, t \in Times}

Listings(kinds) == UNION {[1..n -> kinds] : n \in 0..MaxFiles}

\* the names a run of the same day may have left behind for page id
Leftovers(id) == {FirstName(id)} \cup {SuffixedName(id, k) : k \in 1..MaxSuffix}

NoScan == [width |-> 0, height |-> 0, padding |-> 0, img_width |-> 0, img_height |-> 0,
           result |-> None]

Idle ==
    /\ li = 0 /\ images = <<>> /\ collage_groups = <<>> /\ idx = 0
    /\ grid = NoGrid /\ i = 0 /\ img = NoImg /\ placed = <<>> /\ overlay = None
    /\ collage_filename = <<>> /\ name_i = 0 /\ saved = <<>> /\ err = "none"

\* python collage_creator.py with the default folder 'images': a page too
\* narrow for its padding or a page of 24 x 22, with or without the info
\* box, with or without page 1 left behind by an earlier run of the day
InitMain ==
    /\ entry = "main"
    /\ pc = "load"
    /\ dir \in Listings(FileKinds)
    /\ p \in [width : {1, 24}, height : {22}, pics_per_page : 1..MaxPerPage,
              border : {TRUE}, border_thickness : {1}, padding : {1},
              align : {"left"}, info_box : BOOLEAN]
    /\ imgs = <<>> /\ collage_id = 0
    /\ fs \in {{}, {FirstName(1)}}
    /\ scan = NoScan
    /\ Idle

\* python collage_creator.py over files with time stamps, on a page of 24 x 22
InitDated ==
    /\ entry = "main"
    /\ pc = "load"
    /\ dir \in Listings(DatedKinds)
    /\ p \in [width : {24}, height : {22}, pics_per_page : 1..MaxPerPage,
              border : {TRUE}, border_thickness : {1}, padding : {1},
              align : {"left"}, info_box : {FALSE}]
    /\ imgs = <<>> /\ collage_id = 0
    /\ fs = {}
    /\ scan = NoScan
    /\ Idle

\* the listing and the loaded images of a direct call on n images
DirectCall(n) ==
    /\ dir = [k \in 1..n |-> [ok |-> TRUE, exif |-> NoExif, mtime |-> 0]]
    /\ imgs = [k \in 1..n |-> [filename |-> k, created_date |-> 0]]
    /\ collage_id = 1

\* create_collage(imgs, 1, width, height, p) on n images
InitPage ==
    /\ entry = "create_collage"
    /\ pc = "plan"
    /\ \E n \in 0..MaxImgs : DirectCall(n)
    /\ p \in [width : 1..MaxPage, height : 1..MaxPage, pics_per_page : {MaxImgs},
              border : BOOLEAN, border_thickness : 0..MaxBorder, padding : 0..MaxPad,
              align : Aligns, info_box : {FALSE}]
    /\ fs = {}
    /\ scan = NoScan
    /\ Idle

\* create_collage(imgs, 1, width, height, p) in a working directory that
\* holds any of the names of page 1
InitNamer ==
    /\ entry = "create_collage"
    /\ pc = "plan"
    /\ \E n \in 1..2 : DirectCall(n)
    /\ p \in [width : {MaxPage}, height : {MaxPage}, pics_per_page : {MaxImgs},
              border : {FALSE}, border_thickness : {0}, padding : {0},
              align : {"left"}, info_box : {FALSE}]
    /\ fs \in SUBSET Leftovers(1)
    /\ scan = NoScan
    /\ Idle

\* find_empty_spot(width, height, padding, img_width, img_height)
InitScan ==
    /\ entry = "find_empty_spot"
    /\ pc = "scan"
    /\ scan \in [width : 1..MaxScanPage, height : 1..MaxScanPage, padding : 0..MaxPad,
                 img_width : 1..MaxPanel, img_height : 1..MaxPanel, result : {None}]
    /\ dir = <<>> /\ imgs = <<>> /\ collage_id = 0 /\ fs = {}
    /\ p = [width |-> 0, height |-> 0, pics_per_page |-> 1, border |-> FALSE,
            border_thickness |-> 0, padding |-> 0, align |-> "left", info_box |-> FALSE]
    /\ Idle

Init == InitMain

\* a run of main
Next ==
    \/ LoadImage \/ SkipFile \/ MakeGroups \/ CallCreateCollage \/ Finish
    \/ Plan \/ PlaceImage \/ ResizeError \/ InfoBox
    \/ NameFirst \/ NameNext \/ Save

Spec == Init /\ [][Next]_vars

\* a run of main that meets no error and no existing name
NextDated ==
    \/ LoadImage \/ SkipFile \/ MakeGroups \/ CallCreateCollage \/ Finish
    \/ Plan \/ PlaceImage \/ NameFirst \/ Save

SpecDated == InitDated /\ [][NextDated]_vars

\* a call of create_collage
NextPage ==
    \/ Plan \/ PlanError \/ PlaceImage \/ ResizeError
    \/ NameFirst \/ Save

SpecPage == InitPage /\ [][NextPage]_vars

\* a call of create_collage that reaches the naming loop
NextNamer ==
    \/ Plan \/ PlaceImage \/ NameFirst \/ NameNext \/ Save

SpecNamer == InitNamer /\ [][NextNamer]_vars

\* a run of main or a call of create_collage
InitAny == InitMain \/ InitPage

NextAny ==
    \/ LoadImage \/ SkipFile \/ MakeGroups \/ CallCreateCollage \/ Finish
    \/ Plan \/ PlanError \/ PlaceImage \/ ResizeError \/ InfoBox
    \/ NameFirst \/ NameNext \/ Save

SpecAny == InitAny /\ [][NextAny]_vars

SpecScan == InitScan /\ [][ScanCall]_vars

(***************************************************************************)
(* Properties of create_collage called on a page (SpecPage).               *)
(***************************************************************************)
\* the image loop has pasted at least one image
Pasted == Len(placed) > 0

\* C1 (as claimed): every pasted image, border included, is at most as wide
\* and as high as the cell.
C1_PastedFitsCell ==
    \A k \in 1..Len(placed) :
        placed[k].w <= grid.img_width /\ placed[k].h <= grid.img_height

C7_GridCoversImages ==
    pc \in {"place", "name", "exists"} =>
        LET n == Len(imgs)
            cols == grid.num_cols
            rows == grid.num_rows
        IN  /\ n >= 1
            /\ cols >= 1
            /\ cols * cols <= n /\ n < (cols + 1) * (cols + 1)
            /\ rows * cols >= n /\ n > (rows - 1) * cols
            /\ \A k \in 1..Len(placed) :
                /\ placed[k].row_idx \in 0..(rows - 1)
                /\ placed[k].col_idx \in 0..(cols - 1)
                /\ placed[k].row_idx * cols + placed[k].col_idx = k - 1
            /\ Len(placed) = n =>
                \A r \in 0..(rows - 1) : \E k \in 1..n : placed[k].row_idx = r

\* five images were placed on a grid of two columns whose last row is not full
C7_Witness ==
    /\ pc = "exists"
    /\ Len(placed) = 5
    /\ grid.num_cols = 2 /\ grid.num_rows = 3

\* the pasted rectangle of index k lies within the page
InPage(r) ==
    /\ r.x >= 0 /\ r.y >= 0
    /\ r.x + r.w <= p.width
    /\ r.y + r.h <= p.height

\* two pasted rectangles share no pixel
Disjoint(r, q) ==
    \/ r.x + r.w <= q.x \/ q.x + q.w <= r.x
    \/ r.y + r.h <= q.y \/ q.y + q.h <= r.y

\* C10 (as claimed): on a page with positive cells every pasted rectangle
\* lies within the page and the rectangles of two indices do not intersect.
C10_PastedRectsInPageAndDisjoint ==
    (grid.img_width > 0 /\ grid.img_height > 0) =>
        /\ \A k \in 1..Len(placed) : InPage(placed[k])
        /\ \A k, l \in 1..Len(placed) : k # l => Disjoint(placed[k], placed[l])

(***************************************************************************)
(* Properties of a run of main (Spec).                                     *)
(***************************************************************************)
\* ceil(n / per_page)
Ceil(n, per_page) == (n + per_page - 1) \div per_page

\* the file names of the images at input positions (k-1)*P .. min(k*P, N)-1
ChunkFiles(k) ==
    LET P == p.pics_per_page
        N == Len(images)
    IN  [j \in 1..(Min(k * P, N) - (k - 1) * P) |-> images[(k - 1) * P + j].filename]

FileNames(seq) == [j \in 1..Len(seq) |-> seq[j].filename]

\* C6: N loaded images and P pictures per page give ceil(N / P) pages; page
\* k holds the images at positions (k-1)*P .. min(k*P, N)-1 in input order,
\* only the last page may be shorter than P, and the pages are built in the
\* order 1, 2, ..., all of them when the run completes.
C6_PagesAreContiguousChunks ==
    LET P == p.pics_per_page
        N == Len(images)
    IN  /\ pc # "load" =>
            /\ Len(collage_groups) = Ceil(N, P)
            /\ \A k \in 1..Len(collage_groups) :
                /\ FileNames(collage_groups[k]) = ChunkFiles(k)
                /\ k < Len(collage_groups) => Len(collage_groups[k]) = P
                /\ Len(collage_groups[k]) \in 1..P
        /\ \A k \in 1..Len(saved) :
            /\ saved[k].collage_id = k
            /\ saved[k].files = ChunkFiles(k)
        /\ pc \in {"plan", "place", "info", "name", "exists"} =>
            /\ collage_id = Len(saved) + 1
            /\ FileNames(imgs) = ChunkFiles(collage_id)
        /\ pc = "done" => Len(saved) = Ceil(N, P)

\* three images at two per page were written as a page of two and a page of one
C6_Witness ==
    /\ pc = "done"
    /\ Len(images) = 3 /\ p.pics_per_page = 2
    /\ Len(saved) = 2
    /\ Len(saved[1].files) = 2 /\ Len(saved[2].files) = 1

\* C8: load_images never raises on an undecodable file; it returns exactly
\* the decodable files of the listing, in listing order, and no undecodable
\* file is part of any page.
C8_UndecodableFilesAreSkipped ==
    /\ \A k \in 1..Len(images) :
        /\ images[k].filename \in 1..li
        /\ dir[images[k].filename].ok
    /\ \A k, l \in 1..Len(images) : k < l => images[k].filename < images[l].filename
    /\ \A j \in 1..li : dir[j].ok => \E k \in 1..Len(images) : images[k].filename = j
    /\ pc # "load" => li = Len(dir)
    /\ \A k \in 1..Len(imgs) : dir[imgs[k].filename].ok
    /\ \A k \in 1..Len(placed) : dir[placed[k].filename].ok
    /\ \A k \in 1..Len(saved) : \A j \in 1..Len(saved[k].files) : dir[saved[k].files[j]].ok

\* a listing of three files whose first is undecodable was written as one
\* page of the two others
C8_Witness ==
    /\ pc = "done"
    /\ Len(dir) = 3 /\ ~dir[1].ok
    /\ Len(saved) = 1
    /\ saved[1].files = <<2, 3>>

\* C9 (as claimed): the date stamped on the image at index k of a page is
\* the formatted creation time stamp load_images recorded for that image.
C9_StampedDateIsOwnCreationDate ==
    \A k \in 1..Len(placed) : placed[k].date_str = strftime(imgs[k].created_date)

(***************************************************************************)
(* Properties of the output name (SpecNamer).                              *)
(***************************************************************************)
\* C5: a page is never saved under the name of an existing file; the name
\* is the unsuffixed one when that is unused, and otherwise carries the
\* smallest suffix k >= 1 that is unused, the suffixes being tried in
\* increasing order.
C5_SavedNameIsSmallestUnused ==
    /\ pc = "exists" =>
        /\ collage_filename = IF name_i = 1 THEN FirstName(collage_id)
                              ELSE SuffixedName(collage_id, name_i - 1)
        /\ name_i > 1 => FirstName(collage_id) \in fs
        /\ \A j \in 1..(name_i - 2) : SuffixedName(collage_id, j) \in fs
    /\ \A k \in 1..Len(saved) :
        LET s == saved[k]
            before == fs \ {s.name}
        IN  /\ ~s.overwrote
            /\ FirstName(s.collage_id) \notin before => s.name = FirstName(s.collage_id)
            /\ FirstName(s.collage_id) \in before =>
                \E m \in 1..(MaxSuffix + 1) :
                    /\ s.name = SuffixedName(s.collage_id, m)
                    /\ \A j \in 1..(m - 1) : SuffixedName(s.collage_id, j) \in before

\* the unsuffixed name and suffix -1 existed and the page was saved as -2
C5_Witness ==
    /\ pc = "done"
    /\ Len(saved) = 1
    /\ saved[1].name = SuffixedName(1, 2)
    /\ fs = {FirstName(1), SuffixedName(1, 1), SuffixedName(1, 2)}

(***************************************************************************)
(* Properties of the error outcomes (SpecAny).                             *)
(***************************************************************************)
\* the page being built has no image, or a cell without width or height
BadPage == Len(imgs) = 0 \/ grid.img_width <= 0 \/ grid.img_height <= 0

\* a page without images or with a non-positive cell ends in an error, and
\* nothing is written for it
BadPageRaises ==
    /\ (pc = "plan" /\ Len(imgs) = 0) => (ENABLED PlanError /\ ~ENABLED Plan)
    /\ (pc = "place" /\ BadPage) =>
        (placed = <<>> /\ ENABLED ResizeError /\ ~ENABLED PlaceImage)
    /\ pc \in {"info", "name", "exists"} => ~BadPage
    /\ (entry = "create_collage" /\ pc = "done") => Len(imgs) > 0
    /\ pc = "error" =>
        /\ err \in {"ZeroDivisionError", "ValueError"}
        /\ \A k \in 1..Len(saved) : saved[k].collage_id # collage_id

\* C3 (as claimed): a page without images or with a non-positive cell ends
\* in an error and writes no file, and so does a run of main whose loaded
\* image list is empty.
C3_BadPageAndEmptyRunRaise ==
    /\ BadPageRaises
    /\ ~(entry = "main" /\ pc = "done" /\ images = <<>>)

\* C3 (amended): a page without images or with a non-positive cell ends in
\* an error and writes no file; a run of main whose loaded image list is
\* empty builds no page, raises nothing and writes no file.
C3_BadPageRaisesEmptyRunBuildsNothing ==
    /\ BadPageRaises
    /\ (entry = "main" /\ pc # "load" /\ images = <<>>) =>
        /\ collage_groups = <<>>
        /\ pc \in {"loop", "done"}
        /\ err = "none"
        /\ saved = <<>>

\* a run of main over a listing without a decodable file has completed
C3_Witness ==
    /\ entry = "main" /\ pc = "done"
    /\ Len(dir) > 0 /\ images = <<>>
    /\ saved = <<>> /\ err = "none"

(***************************************************************************)
(* Properties of find_empty_spot (SpecScan).                               *)
(***************************************************************************)
\* the offset lies in the page and the panel at it ends in the page
SpotInPage(spot) ==
    /\ spot[1] >= 0 /\ spot[2] >= 0
    /\ spot[1] + scan.img_width <= scan.width
    /\ spot[2] + scan.img_height <= scan.height

\* C4 (as claimed): None when the panel is wider or higher than the page,
\* and an offset within the page for every other input.
C4_NoneIffPanelExceedsPage ==
    pc = "done" =>
        IF scan.img_width > scan.width \/ scan.img_height > scan.height
        THEN scan.result = None
        ELSE scan.result # None /\ SpotInPage(scan.result)

\* C4 (amended): None exactly when the panel with the padding on both of its
\* sides is wider or higher than the page, which includes every panel wider
\* or higher than the page; otherwise the offset (padding, padding), at
\* which the panel lies within the page.
C4_NoneIffPaddedPanelExceedsPage ==
    pc = "done" =>
        /\ (scan.img_width > scan.width \/ scan.img_height > scan.height)
                => scan.result = None
        /\ scan.result = None <=>
                \/ scan.img_width + 2 * scan.padding > scan.width
                \/ scan.img_height + 2 * scan.padding > scan.height
        /\ scan.result # None =>
                /\ scan.result = <<scan.padding, scan.padding>>
                /\ SpotInPage(scan.result)

\* a panel was given a spot on a page with padding
C4_Witness ==
    /\ pc = "done"
    /\ scan.padding > 0
    /\ scan.result # None

====
